---------------------------- MODULE Spec2Model ----------------------------
(***************************************************************************)
(* Model of team_assign (src/src/main.rs): the affinity-graph builder      *)
(* student_matrix and the randomized partition solver solve.               *)
(*                                                                         *)
(* A Rust String is a sequence of symbols.  A symbol is one character      *)
(* ("a", "A", " ", ",", "+", "-") or, for the feedback vocabulary and the  *)
(* category labels, one whole word or phrase whose inner characters no     *)
(* operation of the program looks at.  Option<T> is a sequence of length   *)
(* at most one: None is << >> and Some(x) is <<x>>.  A HashMap is a        *)
(* function whose DOMAIN is its key set, a HashSet is a set, a Vec is a    *)
(* sequence.                                                               *)
(***************************************************************************)
EXTENDS Integers, Sequences, FiniteSets, TLC

VARIABLES
    input,                    \* the three record streams as read from the files
    fb, sc, cr,               \* the record vectors parse returns
    students,                 \* HashMap<Username, Student>
    classification_students,  \* HashMap<String, HashSet<Username>>
    student_classification,   \* HashMap<Username, HashSet<String>>
    attractor_class,          \* HashMap<String, HashSet<Username>>
    repulsor_class,           \* HashMap<String, HashSet<Username>>
    gh2school,                \* HashMap<GhUsername, Username>
    resolved,                 \* history: per processed feedback record, its resolved last teammate
    injected,                 \* history: the (teammate, category) pairs added by feedback phrases
    draft, solos, nstragglers,\* locals of solve
    best, highest, trial,     \* locals of solve
    valid_totals,             \* history: the totals of the trials that validated
    out,                      \* what solve returned
    pc                        \* position in main

vars == <<input, fb, sc, cr, students, classification_students,
          student_classification, attractor_class, repulsor_class, gh2school,
          resolved, injected, draft, solos, nstragglers, best, highest, trial,
          valid_totals, out, pc>>

None == << >>
Some(x) == <<x>>
unwrap_or(o, d) == IF o = None THEN d ELSE o[1]

EmptyMap == << >>
\* HashMap::insert: a later insert of the same key replaces the value
Insert(m, k, v) == [x \in DOMAIN m \cup {k} |-> IF x = k THEN v ELSE m[x]]

---------------------------------------------------------------------------
(* String operations of the standard library, as the program uses them.    *)

Lower(ch) ==
    CASE ch = "A" -> "a"
      [] ch = "B" -> "b"
      [] ch = "C" -> "c"
      [] ch = "D" -> "d"
      [] ch = "U" -> "u"
      [] ch = "G" -> "g"
      [] OTHER -> ch

to_ascii_lowercase(s) == IF s = << >> THEN << >> ELSE [i \in 1..Len(s) |-> Lower(s[i])]

RECURSIVE trim_start(_)
trim_start(s) == IF s # << >> /\ Head(s) = " " THEN trim_start(Tail(s)) ELSE s

RECURSIVE trim_end(_)
trim_end(s) ==
    IF s # << >> /\ s[Len(s)] = " " THEN trim_end(SubSeq(s, 1, Len(s) - 1)) ELSE s

trim(s) == trim_end(trim_start(s))

\* str::split(","): the pieces between separators; "" gives the one piece ""
RECURSIVE split(_, _)
split(s, sep) ==
    IF \E i \in 1..Len(s) : s[i] = sep
    THEN LET i == CHOOSE k \in 1..Len(s) : s[k] = sep /\ \A j \in 1..(k - 1) : s[j] # sep
         IN  <<SubSeq(s, 1, i - 1)>> \o split(SubSeq(s, i + 1, Len(s)), sep)
    ELSE <<s>>

contains(s, ch) == \E i \in 1..Len(s) : s[i] = ch

\* the canonical form of a handle: trim().to_ascii_lowercase()
sanitize(s) == to_ascii_lowercase(trim(s))

\* Itertools::unique: first occurrences, in order
RECURSIVE unique(_)
unique(v) ==
    IF v = << >> THEN << >>
    ELSE LET r == unique(SubSeq(v, 1, Len(v) - 1))
             x == v[Len(v)]
         IN  IF \E i \in 1..Len(r) : r[i] = x THEN r ELSE Append(r, x)

rev(v) == IF v = << >> THEN << >> ELSE [i \in 1..Len(v) |-> v[Len(v) + 1 - i]]

take(v, n) == IF Len(v) <= n THEN v ELSE SubSeq(v, 1, n)

---------------------------------------------------------------------------
(* parse: the feedback records' two handles are canonicalized on reading;  *)
(* the classification and relation records are kept as read.               *)

parse_fb_record(r) ==
    [r EXCEPT !.school_username = to_ascii_lowercase(trim(r.school_username)),
              !.github_username = to_ascii_lowercase(trim(r.github_username))]

parse(fb_rdr, sc_rdr, rel_rdr) ==
    [fb |-> IF fb_rdr = << >> THEN << >>
            ELSE [i \in 1..Len(fb_rdr) |-> parse_fb_record(fb_rdr[i])],
     sc |-> sc_rdr,
     rel |-> rel_rdr]

---------------------------------------------------------------------------
(* student_matrix                                                          *)

Student_new(school_username) ==
    [school_username |-> school_username,
     attractors |-> {},
     classification_attractors |-> {},
     repulsors |-> {},
     vetos |-> << >>,
     wants |-> << >>,
     ok_solo |-> FALSE]

\* the locals of student_matrix before its first loop
NewBuilder ==
    [students |-> EmptyMap,
     classification_students |-> EmptyMap,
     student_classification |-> EmptyMap,
     attractor_class |-> EmptyMap,
     repulsor_class |-> EmptyMap,
     gh2school |-> EmptyMap,
     resolved |-> << >>,
     injected |-> {},
     panicked |-> FALSE]

insert_classification(s, c, B) ==
    IF c = << >> THEN B
    ELSE LET cs0 == B.classification_students
             cs1 == IF c \in DOMAIN cs0 THEN cs0 ELSE Insert(cs0, c, {})
             st0 == B.student_classification
             st1 == IF s \in DOMAIN st0 THEN st0 ELSE Insert(st0, s, {})
         IN  [B EXCEPT !.classification_students = [cs1 EXCEPT ![c] = @ \cup {s}],
                       !.student_classification = [st1 EXCEPT ![s] = @ \cup {c}]]

RECURSIVE InsertClassifications(_, _, _)
InsertClassifications(s, cs, B) ==
    IF cs = << >> THEN B
    ELSE InsertClassifications(s, Tail(cs), insert_classification(s, Head(cs), B))

\* body of the loop over the classification records
SeedOne(B, s) ==
    IF s.school_username \in DOMAIN B.students
    THEN [B EXCEPT !.panicked = TRUE]
    ELSE LET B1 == [B EXCEPT
                      !.students = Insert(@, s.school_username,
                                          Student_new(s.school_username)),
                      !.student_classification = Insert(@, s.school_username, {})]
         IN  InsertClassifications(s.school_username,
                                   split(unwrap_or(s.classifications, << >>), ","),
                                   B1)

RECURSIVE SeedStudents(_, _)
SeedStudents(B, recs) ==
    IF recs = << >> \/ B.panicked THEN B
    ELSE SeedStudents(SeedOne(B, Head(recs)), Tail(recs))

\* body of the loop over the relation records
RelateOne(B, c) ==
    LET att0 == IF c.class \in DOMAIN B.attractor_class THEN B.attractor_class
                ELSE Insert(B.attractor_class, c.class, {})
        rep0 == IF c.class \in DOMAIN B.repulsor_class THEN B.repulsor_class
                ELSE Insert(B.repulsor_class, c.class, {})
        shs  == IF c.class_other \in DOMAIN B.classification_students
                THEN B.classification_students[c.class_other] ELSE {}
    IN  [B EXCEPT
           !.attractor_class = IF contains(c.relation, "+")
                               THEN [att0 EXCEPT ![c.class] = @ \cup shs] ELSE att0,
           !.repulsor_class = IF contains(c.relation, "-")
                              THEN [rep0 EXCEPT ![c.class] = @ \cup shs] ELSE rep0]

RECURSIVE PropagateRelations(_, _)
PropagateRelations(B, recs) ==
    IF recs = << >> THEN B
    ELSE PropagateRelations(RelateOne(B, Head(recs)), Tail(recs))

RECURSIVE BuildAlias(_, _)
BuildAlias(B, recs) ==
    IF recs = << >> THEN B
    ELSE BuildAlias([B EXCEPT !.gh2school = Insert(@, Head(recs).github_username,
                                                    Head(recs).school_username)],
                    Tail(recs))

comment_mapping ==
    << [phrase |-> <<"Fantastic teammate.">>, class |-> Some(<<"strong">>), want |-> FALSE, veto |-> FALSE],
       [phrase |-> <<"Would love to work with them again.">>, class |-> None, want |-> TRUE, veto |-> FALSE],
       [phrase |-> <<"Both of us working together were greater than the sum of the individuals.">>,
        class |-> Some(<<"helpful">>), want |-> FALSE, veto |-> FALSE],
       [phrase |-> <<"Was not technically capable of pulling their weight.">>, class |-> None, want |-> FALSE, veto |-> TRUE],
       [phrase |-> <<"Did not have a great experience with them.">>, class |-> Some(<<"watch">>), want |-> FALSE, veto |-> TRUE],
       [phrase |-> <<"Did not put in sufficent effort.">>, class |-> Some(<<"lazy">>), want |-> FALSE, veto |-> TRUE],
       [phrase |-> <<"Was not sufficiently responsive.">>, class |-> Some(<<"lazy">>), want |-> FALSE, veto |-> TRUE],
       [phrase |-> <<"Procrastinated.">>, class |-> Some(<<"lazy">>), want |-> FALSE, veto |-> TRUE],
       [phrase |-> <<"Disrespectful.">>, class |-> Some(<<"problem">>), want |-> FALSE, veto |-> TRUE],
       [phrase |-> <<"Abusive.">>, class |-> Some(<<"problem">>), want |-> FALSE, veto |-> TRUE] >>

comment_map ==
    [p \in {comment_mapping[i].phrase : i \in 1..Len(comment_mapping)} |->
        LET i == CHOOSE k \in 1..Len(comment_mapping) : comment_mapping[k].phrase = p
        IN  comment_mapping[i]]

\* gh2school.get(last).or_else(|| if schoolname_valid { Some(last) } else { None })
last_teammate(B, f) ==
    IF f.last_teammate_github_username = None THEN None
    ELSE LET last_gh_username == f.last_teammate_github_username[1]
             schoolname_valid == last_gh_username \in DOMAIN B.student_classification
         IN  IF last_gh_username \in DOMAIN B.gh2school
             THEN Some(B.gh2school[last_gh_username])
             ELSE IF schoolname_valid THEN Some(last_gh_username) ELSE None

\* a lookup that forgets to trim the phrase
PhraseKeyUntrimmed(last_fb) == last_fb

\* comment_map.get(&last_fb.trim())
PhraseKey(last_fb) == trim(last_fb)

\* the loop over the phrases of last_teammate_feedback; acc carries the
\* builder state and the two staged lists fb_vetos, fb_wants
RECURSIVE PhraseLoop(_, _, _)
PhraseLoop(pieces, t, acc) ==
    IF pieces = << >> \/ acc.B.panicked THEN acc
    ELSE LET key == PhraseKey(Head(pieces))
         IN  IF key \notin DOMAIN comment_map
             THEN [acc EXCEPT !.B.panicked = TRUE]
             ELSE LET m  == comment_map[key]
                      B1 == IF m.class # None
                            THEN [insert_classification(t, m.class[1], acc.B)
                                    EXCEPT !.injected = @ \cup {<<t, m.class[1]>>}]
                            ELSE acc.B
                  IN  PhraseLoop(Tail(pieces), t,
                        [B |-> B1,
                         fb_vetos |-> IF m.veto THEN Append(acc.fb_vetos, t)
                                      ELSE acc.fb_vetos,
                         fb_wants |-> IF m.want THEN Append(acc.fb_wants, t)
                                      ELSE acc.fb_wants])

\* the loop over [veto0, veto1, veto2] (or the want fields): the sanitized
\* values that are keys of student_classification, in field order
RECURSIVE ValidFields(_, _)
ValidFields(B, fields) ==
    IF fields = << >> THEN << >>
    ELSE LET rest == ValidFields(B, Tail(fields))
         IN  IF Head(fields) = None THEN rest
             ELSE LET v_sanitized == sanitize(Head(fields)[1])
                  IN  IF v_sanitized \notin DOMAIN B.student_classification
                      THEN rest
                      ELSE <<v_sanitized>> \o rest

\* a cap that forgets to reverse
CapNoRev(v) == take(unique(v), 3)

\* "only keep the last three": vetos.iter().unique().rev().take(3).  rev()
\* drives Unique from the back (next_back), so the values are deduplicated
\* in back-to-front order: of a repeated value the last occurrence is kept
Cap(v) == take(unique(rev(v)), 3)

\* body of the loop over the feedback records
FuseOne(B, f) ==
    IF f.school_username \notin DOMAIN B.students
    THEN [B EXCEPT !.resolved = Append(@, None)]
    ELSE LET s0   == B.students[f.school_username]
             solo == IF f.solo = "Yes" THEN TRUE
                     ELSE IF f.solo = "No" THEN FALSE ELSE s0.ok_solo
             last == last_teammate(B, f)
             B0   == [B EXCEPT !.resolved = Append(@, last)]
             acc0 == [B |-> B0, fb_vetos |-> << >>, fb_wants |-> << >>]
             acc  == IF last = None THEN acc0
                     ELSE PhraseLoop(split(unwrap_or(f.last_teammate_feedback, << >>), ","),
                                     last[1], acc0)
             B1   == acc.B
         IN  IF B1.panicked THEN B1
             ELSE LET vetos == Cap(s0.vetos \o ValidFields(B1, <<f.veto0, f.veto1, f.veto2>>))
                               \o acc.fb_vetos
                      wants == Cap(s0.wants \o ValidFields(B1, <<f.want0, f.want1, f.want2>>))
                               \o acc.fb_wants
                  IN  [B1 EXCEPT !.students[f.school_username] =
                                     [s0 EXCEPT !.ok_solo = solo,
                                                !.vetos = vetos,
                                                !.wants = wants]]

\* a loop that stops at the first record of an unknown student
RECURSIVE FuseFeedbackBreak(_, _)
FuseFeedbackBreak(B, recs) ==
    IF recs = << >> \/ B.panicked THEN B
    ELSE IF Head(recs).school_username \notin DOMAIN B.students
         THEN [B EXCEPT !.resolved = @ \o [i \in 1..Len(recs) |-> None]]
         ELSE FuseFeedbackBreak(FuseOne(B, Head(recs)), Tail(recs))

RECURSIVE FuseFeedback(_, _)
FuseFeedback(B, recs) ==
    IF recs = << >> \/ B.panicked THEN B
    ELSE FuseFeedback(FuseOne(B, Head(recs)), Tail(recs))

Range(v) == {v[i] : i \in 1..Len(v)}

\* body of the last loop: fold the lists and the category sets into the core sets
MergeOne(B, s) ==
    LET classes == B.student_classification[s.school_username]
    IN  [s EXCEPT
           !.repulsors = Range(s.vetos) \cup
               UNION {B.repulsor_class[c] : c \in classes \cap DOMAIN B.repulsor_class},
           !.attractors = Range(s.wants),
           !.classification_attractors =
               UNION {B.attractor_class[c] : c \in classes \cap DOMAIN B.attractor_class}]

Merge(B) ==
    [B EXCEPT !.students = [u \in DOMAIN B.students |-> MergeOne(B, B.students[u])]]

student_matrix(fbv, scv, crv) ==
    LET B1 == SeedStudents(NewBuilder, scv)
    IN  IF B1.panicked THEN B1
        ELSE LET B2 == FuseFeedback(BuildAlias(PropagateRelations(B1, crv), fbv), fbv)
             IN  IF B2.panicked THEN B2 ELSE Merge(B2)

---------------------------------------------------------------------------
(* validate_assignment and solve                                           *)

teamsz == 2

Team_new == [members |-> << >>, score |-> 0]

\* a scorer that adds both weights for a pair in both sets
PairGoodnessAdditive(S, s1, s2) ==
    (IF s2 \in S[s1].attractors THEN 3 ELSE 0)
    + (IF s2 \in S[s1].classification_attractors THEN 1 ELSE 0)

\* one visit of the inner loop body for the ordered pair (s1, s2), s1 # s2
PairGoodness(S, s1, s2) ==
    IF s2 \in S[s1].attractors THEN 3
    ELSE IF s2 \in S[s1].classification_attractors THEN 1
    ELSE 0

\* the early return of validate_assignment
PairRepulsed(S, s1, s2) == s2 \in S[s1].repulsors

\* a pair loop that visits every unordered pair once
VisitedPairsOnce(members) ==
    {<<i, j>> \in (1..Len(members)) \X (1..Len(members)) :
        i < j /\ members[i] # members[j]}

\* the ordered pairs of positions the two nested loops visit, s1 == s2 skipped
VisitedPairs(members) ==
    {<<i, j>> \in (1..Len(members)) \X (1..Len(members)) : members[i] # members[j]}

RECURSIVE SumOver(_, _, _)
SumOver(S, members, pairs) ==
    IF pairs = {} THEN 0
    ELSE LET p == CHOOSE q \in pairs : TRUE
         IN  PairGoodness(S, members[p[1]], members[p[2]])
             + SumOver(S, members, pairs \ {p})

team_goodness(S, members) == SumOver(S, members, VisitedPairs(members))

RECURSIVE SumScores(_)
SumScores(scores) ==
    IF scores = << >> THEN 0 ELSE Head(scores) + SumScores(Tail(scores))

\* None when some visited pair is repulsed, else Some of the total and of
\* the assignment with every team's score filled in
validate_assignment(S, assignment) ==
    IF \E k \in 1..Len(assignment) :
          \E p \in VisitedPairs(assignment[k].members) :
             PairRepulsed(S, assignment[k].members[p[1]], assignment[k].members[p[2]])
    THEN None
    ELSE LET scores == [k \in 1..Len(assignment) |->
                           team_goodness(S, assignment[k].members)]
         IN  Some([goodness |-> SumScores(scores),
                   assignment |-> [k \in 1..Len(assignment) |->
                                     [assignment[k] EXCEPT !.score = scores[k]]]])

\* the outcomes of SliceRandom::shuffle: every order of the elements
Shuffles(v) ==
    {p \in [1..Len(v) -> Range(v)] : \A x \in Range(v) : \E i \in 1..Len(v) : p[i] = x}

\* a scan that forgets the nstragglers > 0 test
RECURSIVE PeelEveryOkSolo(_, _, _)
PeelEveryOkSolo(S, order, acc) ==
    IF order = << >> THEN acc
    ELSE LET n == Head(order)
         IN  PeelEveryOkSolo(S, Tail(order),
                  IF S[n].ok_solo
                  THEN [acc EXCEPT !.solos = Append(@, n),
                                   !.nstragglers = @ - 1]
                  ELSE [acc EXCEPT !.draft = Append(@, n)])

\* the straggler scan over the shuffled draft
RECURSIVE Peel(_, _, _)
Peel(S, order, acc) ==
    IF order = << >> THEN acc
    ELSE LET n == Head(order)
         IN  Peel(S, Tail(order),
                  IF S[n].ok_solo /\ acc.nstragglers > 0
                  THEN [acc EXCEPT !.solos = Append(@, n),
                                   !.nstragglers = @ - 1]
                  ELSE [acc EXCEPT !.draft = Append(@, n)])

\* consecutive groups of teamsz members, every score 0
Chunk(order) ==
    [k \in 1..((Len(order) + teamsz - 1) \div teamsz) |->
        [Team_new EXCEPT !.members =
            SubSeq(order, (k - 1) * teamsz + 1,
                   IF k * teamsz <= Len(order) THEN k * teamsz ELSE Len(order))]]

\* does the trial's score replace the best so far
Better(score, high) == score > high

\* the solo teams pushed onto the best assignment after the loop
RECURSIVE SoloTeams(_)
SoloTeams(ss) ==
    IF ss = << >> THEN << >>
    ELSE <<[Team_new EXCEPT !.members = <<Head(ss)>>]>> \o SoloTeams(Tail(ss))

\* a return that forgets the solo teams
WithoutSolos(b, ss) == b

WithSolos(b, ss) == IF b = None THEN None ELSE Some(b[1] \o SoloTeams(ss))

---------------------------------------------------------------------------
(* The bounded inputs.                                                     *)

MaxSc == 3       \* classification records read
MaxFb == 2       \* feedback records read
MaxTrials == 2   \* iterations of the search loop (2^20 in the program)

a == <<"a">>
b == <<"b">>
c == <<"c">>
d == <<"d">>
u == <<"u">>
ga == <<"g", "a">>
gb == <<"g", "b">>
gu == <<"g", "u">>

Roster ==
    << [school_username |-> a, classifications |-> Some(<<"X">>)],
       [school_username |-> b, classifications |-> Some(<<"Y">>)],
       [school_username |-> c, classifications |-> None],
       [school_username |-> d, classifications |-> Some(<<"X", ",", "Y">>)] >>

ScInputs ==
    {SubSeq(Roster, 1, n) : n \in {k \in 0..MaxSc : k <= Len(Roster)}}
    \cup {<<Roster[1], Roster[2], Roster[1]>>}

Rel(class, class_other, relation) ==
    [class |-> class, class_other |-> class_other, relation |-> relation]

CrInputs ==
    { << >>,
      <<Rel(<<"X">>, <<"Y">>, <<"+">>)>>,
      <<Rel(<<"X">>, <<"strong">>, <<"+">>), Rel(<<"X">>, <<"lazy">>, <<"-">>),
        Rel(<<"Y">>, <<"problem">>, <<"+", "-">>), Rel(<<"strong">>, <<"X">>, <<"+">>)>> }

Fb(school, gh, solo, last, text, vetos, wants) ==
    [school_username |-> school, github_username |-> gh, solo |-> solo,
     last_teammate_github_username |-> last, last_teammate_feedback |-> text,
     veto0 |-> vetos[1], veto1 |-> vetos[2], veto2 |-> vetos[3],
     want0 |-> wants[1], want1 |-> wants[2], want2 |-> wants[3]]

NoFields == <<None, None, None>>

\* records that only declare an alias
PlainRecords ==
    { Fb(a, ga, "", None, None, NoFields, NoFields),
      Fb(u, gu, "", None, None, NoFields, NoFields),
      Fb(<<" ", "B">>, <<"G", "U", " ">>, "No", None, None, NoFields, NoFields) }

FeedbackTexts ==
    { None,
      Some(<< >>),
      Some(<<"Fantastic teammate.">>),
      Some(<<"Abusive.">>),
      Some(<<"Would love to work with them again.", ",", " ", "Procrastinated.">>),
      Some(<<"Great.">>) }

\* records with last-teammate feedback and one veto field
FeedbackRecords ==
    { Fb(who[1], who[2], solo, last, text, <<v, None, None>>, NoFields) :
        who \in {<<a, ga>>, <<u, gu>>}, solo \in {"Yes", "Maybe"},
        last \in {None, Some(gu), Some(b), Some(u)},
        text \in FeedbackTexts, v \in {None, Some(u)} }

\* records of two students that can follow one another
CoreRecords ==
    { Fb(who[1], who[2], "", last, text, <<v, None, None>>, <<None, v, None>>) :
        who \in {<<a, ga>>, <<u, gu>>},
        last \in {None, Some(gu), Some(u)},
        text \in {Some(<<"Fantastic teammate.">>), Some(<<"Abusive.">>), Some(<<"Great.">>)},
        v \in {None, Some(u)} }

FieldTriples == [1..3 -> {None, Some(a), Some(b), Some(c)}]

\* the (veto fields, want fields) of a record: one side filled, or both
FieldPairs ==
    {<<t, NoFields>> : t \in FieldTriples} \cup {<<NoFields, t>> : t \in FieldTriples}
    \cup {<<t, rev(t)>> : t \in FieldTriples}

\* records with three veto and three want fields
CapRecords ==
    { Fb(a, ga, "Yes", lt[1], lt[2], vw[1], vw[2]) :
        lt \in { <<None, None>>,
                 <<Some(gb), Some(<<"Abusive.">>)>>,
                 <<Some(gb), Some(<<"Would love to work with them again.">>)>>,
                 <<Some(gb), Some(<<"Abusive.", ",", "Would love to work with them again.",
                                    ",", " ", "Disrespectful.">>)>> },
        vw \in FieldPairs }

CapPlainRecords ==
    { Fb(b, gb, "", None, None, NoFields, NoFields),
      Fb(c, gb, "", None, None, <<Some(a), None, None>>, NoFields) }

InsertAt(v, i, x) == SubSeq(v, 1, i - 1) \o <<x>> \o SubSeq(v, i, Len(v))

\* up to MaxFb records: plain ones with at most one from rich among them,
\* or two from core followed by plain ones
FbInputs(rich, plain, core) ==
    UNION {[1..n -> plain] : n \in 0..MaxFb}
    \cup UNION { {InsertAt(p, i, r) : p \in [1..(n - 1) -> plain], i \in 1..n, r \in rich}
                 : n \in 1..MaxFb }
    \cup UNION { {<<r1, r2>> \o p : r1 \in core, r2 \in core, p \in [1..(n - 2) -> plain]}
                 : n \in 2..MaxFb }

---------------------------------------------------------------------------
(* main: parse, student_matrix, solve                                      *)

InitRest ==
    /\ fb = << >> /\ sc = << >> /\ cr = << >>
    /\ students = EmptyMap
    /\ classification_students = EmptyMap
    /\ student_classification = EmptyMap
    /\ attractor_class = EmptyMap
    /\ repulsor_class = EmptyMap
    /\ gh2school = EmptyMap
    /\ resolved = << >>
    /\ injected = {}
    /\ draft = << >> /\ solos = << >> /\ nstragglers = 0
    /\ best = None /\ highest = 0 /\ trial = 0
    /\ valid_totals = {}
    /\ out = None

Init ==
    /\ input \in [fb : FbInputs(FeedbackRecords, PlainRecords, CoreRecords), sc : ScInputs, cr : CrInputs]
    /\ pc = "parse"
    /\ InitRest

InitCap ==
    /\ input \in [fb : FbInputs(CapRecords, CapPlainRecords, {}),
                  sc : {s \in ScInputs : Len(s) >= 2}, cr : {<< >>}]
    /\ pc = "parse"
    /\ InitRest

SolveVars == <<draft, solos, nstragglers, best, highest, trial, valid_totals, out>>
BuilderVars == <<students, classification_students, student_classification,
                 attractor_class, repulsor_class, gh2school, resolved, injected>>

BState ==
    [students |-> students,
     classification_students |-> classification_students,
     student_classification |-> student_classification,
     attractor_class |-> attractor_class,
     repulsor_class |-> repulsor_class,
     gh2school |-> gh2school,
     resolved |-> resolved,
     injected |-> injected,
     panicked |-> FALSE]

SetB(R) ==
    /\ students' = R.students
    /\ classification_students' = R.classification_students
    /\ student_classification' = R.student_classification
    /\ attractor_class' = R.attractor_class
    /\ repulsor_class' = R.repulsor_class
    /\ gh2school' = R.gh2school
    /\ resolved' = R.resolved
    /\ injected' = R.injected

Parse ==
    /\ pc = "parse"
    /\ LET r == parse(input.fb, input.sc, input.cr)
       IN  fb' = r.fb /\ sc' = r.sc /\ cr' = r.rel
    /\ pc' = "seed"
    /\ UNCHANGED <<input, BuilderVars, SolveVars>>

Seed ==
    /\ pc = "seed"
    /\ LET R == SeedStudents(BState, sc)
       IN  SetB(R) /\ pc' = IF R.panicked THEN "panicked" ELSE "relations"
    /\ UNCHANGED <<input, fb, sc, cr, SolveVars>>

Relations ==
    /\ pc = "relations"
    /\ SetB(PropagateRelations(BState, cr))
    /\ pc' = "alias"
    /\ UNCHANGED <<input, fb, sc, cr, SolveVars>>

Alias ==
    /\ pc = "alias"
    /\ SetB(BuildAlias(BState, fb))
    /\ pc' = "fuse"
    /\ UNCHANGED <<input, fb, sc, cr, SolveVars>>

Fuse ==
    /\ pc = "fuse"
    /\ LET R == FuseFeedback(BState, fb)
       IN  SetB(R) /\ pc' = IF R.panicked THEN "panicked" ELSE "merge"
    /\ UNCHANGED <<input, fb, sc, cr, SolveVars>>

MergeSets ==
    /\ pc = "merge"
    /\ SetB(Merge(BState))
    /\ pc' = "built"
    /\ UNCHANGED <<input, fb, sc, cr, SolveVars>>

NextBuild == Parse \/ Seed \/ Relations \/ Alias \/ Fuse \/ MergeSets

Spec == Init /\ [][NextBuild]_vars

SpecCap == InitCap /\ [][NextBuild]_vars

---------------------------------------------------------------------------
(* solve, entered with a Students mapping                                  *)

Populations == {{}, {a}, {a, b}, {a, b, c}, {a, b, c, d}}

AttractorSets ==
    {{}, {<<a, b>>}, {<<a, b>>, <<b, a>>}, {<<c, d>>}, {<<a, b>>, <<b, a>>, <<c, d>>}}
ClassificationSets == {{}, {<<a, b>>}, {<<a, b>>, <<d, c>>}}
RepulsorSets == {{}, {<<a, c>>}, {<<d, b>>}, {<<b, a>>}}
SoloSets == {{}, {a}, {a, c}}

Within(pairs, pop) == {p \in pairs : p[1] \in pop /\ p[2] \in pop}

StudentsOf(pop, att, cls, rep, solo) ==
    [s \in pop |->
        [Student_new(s) EXCEPT
            !.attractors = {p[2] : p \in {q \in att : q[1] = s}},
            !.classification_attractors = {p[2] : p \in {q \in cls : q[1] = s}},
            !.repulsors = {p[2] : p \in {q \in rep : q[1] = s}},
            !.ok_solo = s \in solo]]

InitSolve ==
    /\ \E pop \in Populations :
         \E att \in AttractorSets, cls \in ClassificationSets,
            rep \in RepulsorSets, solo \in SoloSets :
              students = StudentsOf(pop, Within(att, pop), Within(cls, pop),
                                    Within(rep, pop), solo \cap pop)
    /\ input = [fb |-> << >>, sc |-> << >>, cr |-> << >>]
    /\ fb = << >> /\ sc = << >> /\ cr = << >>
    /\ classification_students = EmptyMap
    /\ student_classification = EmptyMap
    /\ attractor_class = EmptyMap
    /\ repulsor_class = EmptyMap
    /\ gh2school = EmptyMap
    /\ resolved = << >>
    /\ injected = {}
    /\ draft = << >> /\ solos = << >> /\ nstragglers = 0
    /\ best = None /\ highest = 0 /\ trial = 0
    /\ valid_totals = {}
    /\ out = None
    /\ pc = "solve"

\* the orders in which a HashMap's keys can come out
KeyOrders(S) == {p \in [1..Cardinality(S) -> S] : \A x \in S : \E i \in 1..Cardinality(S) : p[i] = x}

\* lines 439-467: the draft, and the straggler pre-pass over its shuffle
Prepass ==
    /\ pc = "solve"
    /\ \E order \in KeyOrders(DOMAIN students) :
         LET n0 == Len(order) % teamsz
         IN  IF n0 # 0
             THEN LET r == Peel(students, order,
                                [solos |-> << >>, draft |-> << >>, nstragglers |-> n0])
                  IN  draft' = r.draft /\ solos' = r.solos /\ nstragglers' = r.nstragglers
             ELSE draft' = order /\ solos' = << >> /\ nstragglers' = n0
    /\ best' = None /\ highest' = 0 /\ trial' = 0
    /\ pc' = "search"
    /\ UNCHANGED <<input, fb, sc, cr, BuilderVars, valid_totals, out>>

\* one iteration of the search loop
Trial ==
    /\ pc = "search"
    /\ trial < MaxTrials
    /\ \E order \in Shuffles(draft) :
         LET v == validate_assignment(students, Chunk(order))
         IN  /\ draft' = order
             /\ IF v # None /\ Better(v[1].goodness, highest)
                THEN best' = Some(v[1].assignment) /\ highest' = v[1].goodness
                ELSE UNCHANGED <<best, highest>>
             /\ valid_totals' = IF v # None THEN valid_totals \cup {v[1].goodness}
                                ELSE valid_totals
    /\ trial' = trial + 1
    /\ UNCHANGED <<input, fb, sc, cr, BuilderVars, solos, nstragglers, out, pc>>

\* lines 489-498
Return ==
    /\ pc = "search"
    /\ trial = MaxTrials
    /\ out' = WithSolos(best, solos)
    /\ pc' = "done"
    /\ UNCHANGED <<input, fb, sc, cr, BuilderVars, draft, solos, nstragglers,
                   best, highest, trial, valid_totals>>

NextSolve == Prepass \/ Trial \/ Return

SpecSolve == InitSolve /\ [][NextSolve]_vars

---------------------------------------------------------------------------
(* Properties of solve                                                     *)

Returned == pc = "done" /\ out # None

Max(S) == CHOOSE x \in S : \A y \in S : y <= x
Min2(x, y) == IF x <= y THEN x ELSE y

TotalOf(assignment) ==
    SumScores([k \in 1..Len(assignment) |-> assignment[k].score])

\* the teams of the returned partition that came from the draft pool
PoolCount == Len(out[1]) - Len(solos)

OkSolo == {s \in DOMAIN students : students[s].ok_solo}

\* C1: if some trial validated, solve returns a partition, and its total is
\* the maximum total over the valid trials (a total of 0 included).
C1_BestValidReturned ==
    (pc = "done" /\ valid_totals # {}) =>
        (out # None /\ TotalOf(out[1]) = Max(valid_totals))

\* C2: in every returned partition no member of a team has a teammate in
\* its repulsors, in either direction.
C2_NoRepulsionInReturned ==
    Returned =>
        \A k \in 1..Len(out[1]) :
            LET m == out[1][k].members
            IN  \A i, j \in 1..Len(m) :
                    i # j => /\ m[j] \notin students[m[i]].repulsors
                             /\ m[i] \notin students[m[j]].repulsors

\* a partition is returned although one student repulses another
C2_Witness ==
    /\ Returned
    /\ Len(out[1]) >= 2
    /\ \E s \in DOMAIN students : students[s].repulsors \cap DOMAIN students # {}

\* C3 as stated: the pre-pass peels exactly (population mod team size)
\* people whatever the okSolo flags, the pool is divisible by team size,
\* and every returned pool team has exactly team size members.
C3_ExactStragglers ==
    (pc \in {"search", "done"}) =>
        /\ Len(solos) = Cardinality(DOMAIN students) % teamsz
        /\ Len(draft) % teamsz = 0
        /\ out # None =>
              /\ \A k \in 1..PoolCount : Len(out[1][k].members) = teamsz
              /\ Cardinality({k \in 1..Len(out[1]) : Len(out[1][k].members) = 1})
                    = Cardinality(DOMAIN students) % teamsz

\* C3 amended: the pre-pass peels min(population mod team size, number of
\* okSolo people); the pool is what is left; in a returned partition every
\* pool team has team size members but the last one, which has
\* (pool size mod team size) members when the pool is not divisible, and
\* the solo teams number as many as were peeled.
C3_StragglersUpToOkSolo ==
    (pc \in {"search", "done"}) =>
        /\ Len(solos) = Min2(Cardinality(DOMAIN students) % teamsz, Cardinality(OkSolo))
        /\ Len(draft) = Cardinality(DOMAIN students) - Len(solos)
        /\ \A i \in 1..Len(solos) : students[solos[i]].ok_solo
        /\ out # None =>
              /\ PoolCount = (Len(draft) + teamsz - 1) \div teamsz
              /\ \A k \in 1..PoolCount :
                    Len(out[1][k].members) =
                        IF k < PoolCount \/ Len(draft) % teamsz = 0
                        THEN teamsz ELSE Len(draft) % teamsz
              /\ \A k \in (PoolCount + 1)..Len(out[1]) : Len(out[1][k].members) = 1

\* a partition is returned whose pool was not divisible: nobody was okSolo
C3_Witness ==
    /\ Returned
    /\ Len(draft) % teamsz # 0
    /\ Cardinality(DOMAIN students) >= 3

\* C4: in a returned partition every key of the mapping is a member of
\* exactly one team, nothing else is a member, and the solo teams
\* follow the pool teams, one per straggler, with score 0.
C4_ExactlyOnce ==
    Returned =>
        LET teams == out[1]
            Places(s) == {<<k, i>> \in (1..Len(teams)) \X (1..Cardinality(DOMAIN students)) :
                              i <= Len(teams[k].members) /\ teams[k].members[i] = s}
        IN  /\ \A s \in DOMAIN students : Cardinality(Places(s)) = 1
            /\ \A k \in 1..Len(teams) : Range(teams[k].members) \subseteq DOMAIN students
            /\ PoolCount >= 0
            /\ \A k \in 1..PoolCount : Range(teams[k].members) \cap Range(solos) = {}
            /\ \A i \in 1..Len(solos) :
                  teams[PoolCount + i] = [members |-> <<solos[i]>>, score |-> 0]

\* a partition is returned with a solo team after two or more pool members
C4_Witness ==
    /\ Returned
    /\ solos # << >>
    /\ Len(out[1]) >= 2

\* the claim's scoring rule for a team, as a count of ordered pairs
RuleScore(members) ==
    LET M == Range(members)
        P == {p \in M \X M : p[1] # p[2]}
    IN  3 * Cardinality({p \in P : p[2] \in students[p[1]].attractors})
        + Cardinality({p \in P : /\ p[2] \notin students[p[1]].attractors
                                 /\ p[2] \in students[p[1]].classification_attractors})

\* C9: every pool team's score is the sum over its ordered pairs of 3 for
\* an explicit attractor, else 1 for a classification attractor, else 0,
\* and the total the best is chosen by is the sum of the team scores.
C9_ScoringRule ==
    /\ best # None =>
          /\ \A k \in 1..Len(best[1]) : best[1][k].score = RuleScore(best[1][k].members)
          /\ highest = TotalOf(best[1])
    /\ Returned =>
          /\ \A k \in 1..PoolCount : out[1][k].score = RuleScore(out[1][k].members)
          /\ highest = TotalOf(out[1])

\* a returned partition with a pair in both sets (3, not 4, each way) and
\* a second scoring team
C9_Witness ==
    /\ Returned
    /\ \E k \in 1..PoolCount :
          \E x, y \in Range(out[1][k].members) :
              /\ x # y
              /\ y \in students[x].attractors \cap students[x].classification_attractors
    /\ \E k \in 1..PoolCount : out[1][k].score = 1
    /\ highest = 7

---------------------------------------------------------------------------
(* Properties of student_matrix                                            *)

ScHandles == {sc[k].school_username : k \in 1..Len(sc)}

Known(i) == fb[i].school_username \in ScHandles

VetoFields(f) == <<f.veto0, f.veto1, f.veto2>>
WantFields(f) == <<f.want0, f.want1, f.want2>>

Phrases(f) == split(unwrap_or(f.last_teammate_feedback, << >>), ",")

\* the teammates person p's records stage through a phrase with the flag
StagedFor(p, flag) ==
    {resolved[j][1] : j \in {k \in 1..Len(resolved) :
        /\ fb[k].school_username = p
        /\ resolved[k] # None
        /\ \E q \in Range(Phrases(fb[k])) :
              /\ trim(q) \in DOMAIN comment_map
              /\ IF flag = "veto" THEN comment_map[trim(q)].veto
                 ELSE comment_map[trim(q)].want}}

\* C5: a veto (want) field whose canonical value is the handle of no
\* classification record is dropped: unless a veto-flagged (want-flagged)
\* phrase stages it for that person, it is not in the person's final
\* repulsors (attractors).
C5_UnknownHandleDropped ==
    pc = "built" =>
        \A i \in 1..Len(fb) :
            Known(i) =>
                LET p == fb[i].school_username
                IN  \A n \in 1..3 :
                      /\ VetoFields(fb[i])[n] # None =>
                            LET h == sanitize(VetoFields(fb[i])[n][1])
                            IN  (h \notin ScHandles /\ h \notin StagedFor(p, "veto"))
                                    => h \notin students[p].repulsors
                      /\ WantFields(fb[i])[n] # None =>
                            LET h == sanitize(WantFields(fb[i])[n][1])
                            IN  (h \notin ScHandles /\ h \notin StagedFor(p, "want"))
                                    => h \notin students[p].attractors

\* C6: once a phrase has added teammate t to derived category C, every
\* member p of the subject category S of a relation (S, C, polarity) has t
\* in classification_attractors for '+' and in repulsors for '-'.
C6_RetroactivePropagation ==
    pc = "built" =>
        \A tc \in injected :
            \A k \in 1..Len(cr) :
                cr[k].class_other = tc[2] =>
                    \A p \in DOMAIN students :
                        cr[k].class \in student_classification[p] =>
                            /\ contains(cr[k].relation, "+") =>
                                  tc[1] \in students[p].classification_attractors
                            /\ contains(cr[k].relation, "-") =>
                                  tc[1] \in students[p].repulsors

RemoveAt(v, i) == SubSeq(v, 1, i - 1) \o SubSeq(v, i + 1, Len(v))

\* what student_matrix gives for the feedback records fbv: the mapping, or a panic
Outcome(fbv) ==
    LET R == student_matrix(fbv, sc, cr)
    IN  [panicked |-> R.panicked,
         students |-> IF R.panicked THEN EmptyMap ELSE R.students]

Finished == pc \in {"built", "panicked"}

\* the run's own result is the function's
RunIsFunction ==
    /\ pc = "built" => Outcome(fb) = [panicked |-> FALSE, students |-> students]
    /\ pc = "panicked" => Outcome(fb).panicked

\* C7 as stated: the mapping is the one built with the skipped record removed.
C7_SkippedRecordRemovable ==
    Finished =>
        \A i \in 1..Len(fb) :
            ~Known(i) => Outcome(fb) = Outcome(RemoveAt(fb, i))

\* no record of a known student names the skipped record's github
\* username as its last teammate
AliasUnused(i) ==
    \A j \in 1..Len(fb) :
        (j # i /\ Known(j)) =>
            fb[j].last_teammate_github_username # Some(fb[i].github_username)

\* C7 amended: the skipped record still enters the alias table, so the
\* mapping is the one built without it provided no known student's record
\* names its github username as last teammate.
C7_SkippedRecordOnlyAliases ==
    Finished =>
        /\ RunIsFunction
        /\ \A i \in 1..Len(fb) :
              (~Known(i) /\ AliasUnused(i)) => Outcome(fb) = Outcome(RemoveAt(fb, i))

\* a skipped record is followed by a known student's record whose last
\* teammate resolves
C7_Witness ==
    /\ pc = "built"
    /\ \E i, j \in 1..Len(fb) :
          /\ i < j
          /\ ~Known(i) /\ AliasUnused(i)
          /\ Known(j) /\ resolved[j] # None
          /\ students[fb[j].school_username].ok_solo

\* the teammate t once per phrase carrying the flag, in phrase order
RECURSIVE Staged(_, _, _)
Staged(pieces, t, flag) ==
    IF pieces = << >> THEN << >>
    ELSE LET m == comment_map[trim(Head(pieces))]
         IN  (IF (IF flag = "veto" THEN m.veto ELSE m.want) THEN <<t>> ELSE << >>)
             \o Staged(Tail(pieces), t, flag)

StagedOf(i, flag) ==
    IF resolved[i] = None THEN << >> ELSE Staged(Phrases(fb[i]), resolved[i][1], flag)

\* the three fields hold distinct handles of classification records
ThreeValid(fields) ==
    /\ \A n \in 1..3 : fields[n] # None /\ sanitize(fields[n][1]) \in ScHandles
    /\ Cardinality({sanitize(fields[n][1]) : n \in 1..3}) = 3

Reversed(fields) ==
    <<sanitize(fields[3][1]), sanitize(fields[2][1]), sanitize(fields[1][1])>>

OnlyRecord(i) ==
    Known(i) /\ \A j \in 1..Len(fb) : j # i => fb[j].school_username # fb[i].school_username

\* C8: for a known person's only record with three distinct valid veto
\* fields x, y, z the veto list is [z, y, x] followed by the repulsions
\* staged from the record's phrases; likewise the want list.
C8_CapCorrectness ==
    pc = "built" =>
        \A i \in 1..Len(fb) :
            OnlyRecord(i) =>
                LET s == students[fb[i].school_username]
                IN  /\ ThreeValid(VetoFields(fb[i])) =>
                          s.vetos = Reversed(VetoFields(fb[i])) \o StagedOf(i, "veto")
                    /\ ThreeValid(WantFields(fb[i])) =>
                          s.wants = Reversed(WantFields(fb[i])) \o StagedOf(i, "want")

\* both lists are full and both carry staged entries after the cap
C8_Witness ==
    /\ pc = "built"
    /\ \E i \in 1..Len(fb) :
          /\ OnlyRecord(i)
          /\ ThreeValid(VetoFields(fb[i])) /\ ThreeValid(WantFields(fb[i]))
          /\ Len(students[fb[i].school_username].vetos) = 5
          /\ Len(students[fb[i].school_username].wants) = 4

\* record i is read for a known student, its last teammate resolves, and
\* one of its phrases, trimmed, is outside the table
OutsideVocabulary(i) ==
    /\ Known(i)
    /\ resolved[i] # None
    /\ \E q \in Range(Phrases(fb[i])) : trim(q) \notin DOMAIN comment_map

SeedPanicked == Cardinality(ScHandles) # Len(sc)

\* C10: the feedback loop panics exactly at the first record of a known
\* student whose last teammate resolves and one of whose phrases, trimmed,
\* is outside the ten-phrase table; absent or empty feedback is the one
\* empty phrase and panics; an unresolved last teammate never panics.
C10_ClosedVocabulary ==
    /\ Cardinality(DOMAIN comment_map) = 10
    /\ (pc \in {"merge", "built"}) =>
          /\ Len(resolved) = Len(fb)
          /\ \A i \in 1..Len(fb) : ~OutsideVocabulary(i)
    /\ (pc = "panicked" /\ ~SeedPanicked) =>
          /\ Len(resolved) >= 1
          /\ OutsideVocabulary(Len(resolved))
          /\ \A i \in 1..(Len(resolved) - 1) : ~OutsideVocabulary(i)
    /\ \A i \in 1..Len(resolved) :
          /\ (/\ Known(i)
              /\ resolved[i] # None
              /\ fb[i].last_teammate_feedback \in {None, Some(<< >>)}) => pc = "panicked"
          /\ resolved[i] # None =>
                /\ Known(i)
                /\ fb[i].last_teammate_github_username # None
                /\ \/ fb[i].last_teammate_github_username[1] \in DOMAIN gh2school
                   \/ fb[i].last_teammate_github_username[1] \in ScHandles
                   \/ \E tc \in injected : tc[1] = fb[i].last_teammate_github_username[1]
          /\ (/\ Known(i)
              /\ fb[i].last_teammate_github_username # None
              /\ \/ fb[i].last_teammate_github_username[1] \in DOMAIN gh2school
                 \/ fb[i].last_teammate_github_username[1] \in ScHandles)
                => resolved[i] # None

\* the build panics on a record whose feedback is absent, and another
\* build passes a padded phrase
C10_Witness ==
    /\ pc = "panicked"
    /\ ~SeedPanicked
    /\ fb[Len(resolved)].last_teammate_feedback = None
    /\ Len(resolved) = 2

=============================================================================
